---- MODULE Spec2Model ----
(***************************************************************************)
(* Agent Session Bridge of cx-agent-studio-channels.                       *)
(*                                                                         *)
(* Spec          one message handled by the Telegram bridge on a fresh     *)
(*               client: handle_message, the registry lookup, the          *)
(*               synchronous call or BidiSessionClient.send_message with   *)
(*               its calling thread and its websocket worker thread.       *)
(* SpecShared    the same handler run for NumCalls messages that may       *)
(*               overlap, on the one BidiSessionClient object, which keeps *)
(*               the exchange state in fields of self.                     *)
(*                                                                         *)
(* Texts are sequences of character codes (ASCII), so that joining,        *)
(* truncating and formatting are computed as the code computes them.       *)
(***************************************************************************)
EXTENDS Integers, Sequences, FiniteSets, TLC

\* ------------------------------------------------------------------ bounds
\* messages handled under SpecShared, on one client object
NumCalls == 2
\* inbound frames per connection under Spec
MaxFrames == 3
\* inbound frames over all connections under SpecShared
MaxSharedFrames == 1

\* ------------------------------------------------------- program constants
\* "\n", the separator of "\n".join(...)
NL == 10

Calls == 1..NumCalls
None == <<-1>>

VARIABLES
    \* telegram/main.py module state
    use_bidi_session,   \* config.use_bidi_session
    ces_deployment_id,  \* config.ces_deployment_id: None or the id
    tg_user_sessions,   \* user_sessions: chat id -> session id, None = absent
    \* slack/main.py module state
    slack_user_sessions,\* user_sessions: the dict, key string -> session id
    \* the registries' environment and the last registry call made
    now,                \* seconds passed since StartTime
    last_call,          \* [op, platform, key, sanitized, prev, ret] of the last call
    \* per handled message: locals of handle_message
    chat_id,            \* update.effective_chat.id
    session_id,         \* the session id get_session_id returned
    replies,            \* the texts sent with update.message.reply_text
    \* fields of the BidiSessionClient object (shared by every call on it)
    self_responses,     \* self._responses: list of fragments
    self_response_event,\* self._response_event: threading.Event flag
    self_connected,     \* self._connected
    self_error,         \* self._error: None or str
    self_ws,            \* self._ws: the call whose ws_app is stored, 0 = None
    self_ws_thread,     \* self._ws_thread: the call whose thread is stored, 0 = None
    \* per call of send_message: the calling thread
    pc,                 \* position of the calling thread
    on_response,        \* the on_response argument: "none", "ok", "raises"
    timedOut,           \* wait(timeout) returned False
    closeCalls,         \* number of ws_app.close() made by the calling thread
    joinCalls,          \* number of Thread.join made by the calling thread
    result,             \* returned text, None before the return or on raise
    exc,                \* the exception raised: "none", "auth", "websocket", "request"
    \* per call: the worker thread (ws_app.run_forever) and its connection
    wk,                 \* "none","connecting","open","closing","exiting","dead"
    conn,               \* "none","connecting","open","closed" (by ws_app.close()),
                        \* "lost" (closed by the server or by an error)
    sent,               \* frames sent by on_open, requests sent by run_session
    frames,             \* inbound frames handed to on_message, in arrival order
    cbLog,              \* fragments handed to on_response, in invocation order
    token_requests,     \* number of _get_auth_token calls made by the call
    \* per call of CESClient.run_session
    sync_requests,      \* number of session_client.run_session requests made
    sync_response,      \* the RunSessionResponse received: [outputs, content]
    \* one call of telegram/main.py send_long_message
    ch_text,            \* the text argument
    ch_max,             \* the max_length argument
    ch_pc,              \* "idle", "call", "for" (the loop over the lines),
                        \* "while" (the loop that cuts a long line), "done"
    ch_lines,           \* the lines the for loop has not read yet
    ch_chunks,          \* chunks
    ch_current,         \* current_chunk
    ch_line,            \* line, while the loop of lines 227-229 cuts it
    ch_sent,            \* the texts sent with reply_text, in order
    \* history variables (not program state)
    errBy               \* errBy[c]: c's own worker set the error slot during c

clientVars == <<self_responses, self_response_event, self_connected, self_error,
                self_ws, self_ws_thread>>
callVars == <<pc, on_response, timedOut, closeCalls, joinCalls, result, exc>>
workerVars == <<wk, conn, sent, frames, cbLog>>
histVars == <<errBy>>
regVars == <<slack_user_sessions, now, last_call>>
syncVars == <<sync_requests, sync_response>>
authVars == <<token_requests>>
chunkVars == <<ch_text, ch_max, ch_pc, ch_lines, ch_chunks, ch_current,
               ch_line, ch_sent>>
configVars == <<use_bidi_session, ces_deployment_id>>
bridgeVars == <<configVars, tg_user_sessions, chat_id, session_id, replies,
                regVars, chunkVars, syncVars, authVars>>
vars == <<bridgeVars, clientVars, callVars, workerVars, histVars>>

\* ------------------------------------------------------------------- texts
RECURSIVE JoinWith(_, _)
\* sep.join(parts)
JoinWith(sep, parts) ==
    IF parts = <<>> THEN <<>>
    ELSE IF Len(parts) = 1 THEN parts[1]
    ELSE parts[1] \o <<sep>> \o JoinWith(sep, Tail(parts))

IsNonEmpty(t) == t # <<>>

\* Python truthiness of an Optional[str]: None and "" are falsy
Truthy(s) == s # None /\ s # <<>>

\* the text the server puts in frame i of call c's connection
FragText(c, i) == <<96 + (c - 1) * 10 + i>>

\* str(e) of the exceptions handed to on_error / caught in on_open
ErrMsgs == {<<>>, <<101>>}

\* ----------------------------------------------------- telegram registry
\* "telegram-"
TelegramPrefix == <<116, 101, 108, 101, 103, 114, 97, 109, 45>>
\* "-sess"
SessSuffix == <<45, 115, 101, 115, 115>>

Abs(n) == IF n < 0 THEN -n ELSE n

RECURSIVE IntToStr(_)
\* str(n) for n >= 0: its decimal digits
IntToStr(n) ==
    IF n < 10 THEN <<48 + n>> ELSE IntToStr(n \div 10) \o <<48 + (n % 10)>>

\* s[:n]
Take(s, n) == SubSeq(s, 1, IF Len(s) < n THEN Len(s) ELSE n)

\* str.isalnum() of one ASCII character
IsAlnum(ch) == ch \in (48..57) \cup (65..90) \cup (97..122)

\* a character of [A-Za-z0-9_-]
IsIdChar(ch) == IsAlnum(ch) \/ ch = 45 \/ ch = 95

\* telegram/main.py sanitize_session_id
tg_sanitize_session_id(cid) ==
    LET s0 == TelegramPrefix \o IntToStr(Abs(cid))
        s1 == IF Len(s0) < 5 THEN s0 \o SessSuffix ELSE s0
        s2 == IF ~IsAlnum(s1[1]) THEN <<116>> \o s1 ELSE s1
    IN Take(s2, 63)

\* telegram/main.py get_session_id: the registry after the call
tg_get_session_id_always_new(reg, cid) ==
    [reg EXCEPT ![cid] = tg_sanitize_session_id(cid)]

\* telegram/main.py get_session_id: the registry after the call
tg_get_session_id(reg, cid) ==
    IF reg[cid] = None THEN [reg EXCEPT ![cid] = tg_sanitize_session_id(cid)]
    ELSE reg

\* the chat ids the handled messages come from
TgChats == {12, -12}

\* ---------------------------------------------------------- configuration
\* config.app_resource_name, for project "p", region "r" and app "a"
app_resource_name == <<112, 114, 111, 106, 101, 99, 116, 115, 47, 112, 47, 108, 111, 99, 97, 116, 105, 111, 110, 115, 47, 114, 47, 97, 112, 112, 115, 47, 97>>

\* the CES_DEPLOYMENT_ID of a configured deployment: "d"
DeploymentId == <<100>>

\* config.deployment_resource_name
deployment_resource_name(deployment_id) ==
    IF Truthy(deployment_id)
    THEN app_resource_name \o <<47, 100, 101, 112, 108, 111, 121, 109, 101, 110, 116, 115, 47>> \o deployment_id
    ELSE None

\* config.get_session_name
get_session_name(sid) == app_resource_name \o <<47, 115, 101, 115, 115, 105, 111, 110, 115, 47>> \o sid

\* update.message.text of the message call c handles: "m1", "m2"
user_message(c) == <<109, 48 + c>>

\* what on_open serialises and sends first: the BidiSessionClientMessage with
\* config = SessionConfig(session = session_name)
ConfigFrame(session_name) ==
    [kind |-> "config", session |-> session_name, deployment |-> None,
     text |-> None]

\* what on_open sends second: realtime_input = SessionInput(text)
InputFrame(text) ==
    [kind |-> "realtime_input", session |-> None, deployment |-> None,
     text |-> text]

\* the RunSessionRequest of run_session: config and inputs
RunSessionRequest(session_name, text) ==
    [kind |-> "run_session", session |-> session_name, deployment |-> None,
     text |-> text]

\* -------------------------------------------------------- slack registry
\* "slack-"
SlackPrefix == <<115, 108, 97, 99, 107, 45>>
\* "main"
MainPart == <<109, 97, 105, 110>>

\* s.replace(".", "-")
ReplaceDots(s) == [i \in 1..Len(s) |-> IF s[i] = 46 THEN 45 ELSE s[i]]

\* re.sub(r"[^a-zA-Z0-9\-_]", "-", s)
SubInvalid(s) == [i \in 1..Len(s) |-> IF IsIdChar(s[i]) THEN s[i] ELSE 45]

slack_sanitize_keeps_chars(channel_id, thread_ts) ==
    LET thread_part == IF Truthy(thread_ts) THEN ReplaceDots(thread_ts)
                       ELSE MainPart
        s0 == SlackPrefix \o channel_id \o <<45>> \o thread_part
        s1 == IF Len(s0) < 5 THEN s0 \o SessSuffix ELSE s0
        s2 == IF ~IsAlnum(s1[1]) THEN <<115>> \o s1 ELSE s1
    IN Take(s2, 63)

\* slack/main.py sanitize_session_id
slack_sanitize_session_id(channel_id, thread_ts) ==
    LET thread_part == IF Truthy(thread_ts) THEN ReplaceDots(thread_ts)
                       ELSE MainPart
        s0 == SlackPrefix \o channel_id \o <<45>> \o thread_part
        s1 == IF Len(s0) < 5 THEN s0 \o SessSuffix ELSE s0
        s2 == IF ~IsAlnum(s1[1]) THEN <<115>> \o s1 ELSE s1
        s3 == SubInvalid(s2)
    IN Take(s3, 63)

\* the dict key f"{channel_id}:{thread_ts or 'main'}"
SlackKey(channel_id, thread_ts) ==
    channel_id \o <<58>> \o (IF Truthy(thread_ts) THEN thread_ts ELSE MainPart)

\* int(time.time()) when the model starts
StartTime == 1700000000
\* seconds the clock may advance
MaxTicks == 2
\* length of the long channel id
LongLen == 60

RECURSIVE Rep(_, _)
\* ch * n
Rep(ch, n) == IF n = 0 THEN <<>> ELSE <<ch>> \o Rep(ch, n - 1)

\* the (channel_id, thread_ts) the Slack handlers are called with: "C1" with
\* no thread and with thread "17.5", "c.1" and a long channel id
SlackContexts ==
    {<<<<67, 49>>, None>>, <<<<67, 49>>, <<49, 55, 46, 53>>>>,
     <<<<99, 46, 49>>, None>>, <<Rep(67, LongLen), None>>}

NoCall ==
    [op |-> "none", platform |-> "none", key |-> None, sanitized |-> FALSE,
     prev |-> None, ret |-> None]

\* ------------------------------------------------------------ the chunker
\* Telegram's limit, the default max_length of send_long_message
TelegramLimit == 4096

\* str.isspace() of one character: what str.strip() removes
IsSpace(ch) == ch \in {9, 10, 11, 12, 13, 28, 29, 30, 31, 32}

RECURSIVE LStrip(_)
LStrip(s) == IF s # <<>> /\ IsSpace(s[1]) THEN LStrip(Tail(s)) ELSE s

RECURSIVE RStrip(_)
RStrip(s) ==
    IF s # <<>> /\ IsSpace(s[Len(s)]) THEN RStrip(SubSeq(s, 1, Len(s) - 1))
    ELSE s

KeepWhitespace(s) == s

\* s.strip()
Strip(s) == RStrip(LStrip(s))

RECURSIVE SplitFrom(_, _, _)
\* text.split(sep) continued: cur is the line being read
SplitFrom(text, sep, cur) ==
    IF text = <<>> THEN <<cur>>
    ELSE IF text[1] = sep THEN <<cur>> \o SplitFrom(Tail(text), sep, <<>>)
    ELSE SplitFrom(Tail(text), sep, Append(cur, text[1]))

\* text.split("\n")
SplitLines(text) == SplitFrom(text, NL, <<>>)

DropNothing(s, n) == s

\* s[n:]
Drop(s, n) == IF Len(s) <= n THEN <<>> ELSE SubSeq(s, n + 1, Len(s))

RECURSIVE HardSplit(_, _, _)
\* lines 227-229: while len(line) > max_length, for max_length >= 1: the
\* chunks with the pieces appended, and what is left of the line
HardSplit(line, max_length, chunks) ==
    IF Len(line) > max_length
    THEN HardSplit(Drop(line, max_length), max_length,
                   Append(chunks, Take(line, max_length)))
    ELSE [chunks |-> chunks, line |-> line]

RECURSIVE ChunkLines(_, _, _, _)
\* lines 220-230: the for loop over the lines
ChunkLines(lines, max_length, chunks, current_chunk) ==
    IF lines = <<>> THEN [chunks |-> chunks, current_chunk |-> current_chunk]
    ELSE LET line == lines[1] IN
         IF Len(current_chunk) + Len(line) + 1 <= max_length
         THEN ChunkLines(Tail(lines), max_length, chunks,
                         current_chunk \o line \o <<NL>>)
         ELSE LET flushed == IF current_chunk # <<>>
                             THEN Append(chunks, Strip(current_chunk))
                             ELSE chunks
                  hs == HardSplit(line, max_length, flushed)
              IN ChunkLines(Tail(lines), max_length, hs.chunks,
                            hs.line \o <<NL>>)

\* send_long_message, for max_length >= 1: the texts sent with reply_text
send_long_message(text, max_length) ==
    IF Len(text) <= max_length THEN <<text>>
    ELSE LET r == ChunkLines(SplitLines(text), max_length, <<>>, <<>>)
         IN IF Strip(r.current_chunk) # <<>>
            THEN Append(r.chunks, Strip(r.current_chunk))
            ELSE r.chunks

\* ------------------------------------------------- the synchronous client
\* str(response) of a response whose outputs carry no text: each entry of
\* the repeated field prints as "outputs {\n}\n"
EmptyOutputRepr == <<111, 117, 116, 112, 117, 116, 115, 32, 123, 10, 125, 10>>

RECURSIVE ReprOutputs(_)
ReprOutputs(outputs) ==
    IF outputs = <<>> THEN <<>>
    ELSE EmptyOutputRepr \o ReprOutputs(Tail(outputs))

extract_response_text_keeps_empty(response) ==
    LET texts == response.outputs \o response.content
    IN IF texts # <<>> THEN JoinWith(NL, texts)
       ELSE ReprOutputs(response.outputs)

\* CESClient._extract_response_text; a response is [outputs, content]: the
\* text fields of response.outputs and of response.response.content
extract_response_text(response) ==
    LET texts == SelectSeq(response.outputs, IsNonEmpty)
                 \o SelectSeq(response.content, IsNonEmpty)
    IN IF texts # <<>> THEN JoinWith(NL, texts)
       ELSE ReprOutputs(response.outputs)

\* the responses the backend stub answers run_session with
SyncResponses ==
    {[outputs |-> o, content |-> k] :
        o \in {<<>>, <<<<>>>>, <<<<104, 105>>>>, <<<<104>>, <<>>, <<105>>>>},
        k \in {<<>>, <<<<99>>>>}}

\* ------------------------------------------------------------ server frames
\* the shapes of inbound frame the model draws from
FrameKinds == {"bad", "text", "text_tc", "tc", "content"}

FrameParsedAnyway(c, i, kind) ==
    [ok      |-> TRUE,
     out_text|-> IF kind \in {"text", "text_tc", "bad"} THEN FragText(c, i)
                 ELSE <<>>,
     content |-> IF kind = "content"
                 THEN <<FragText(c, i), <<>>, FragText(c, i)>> ELSE <<>>,
     tc_top  |-> kind = "tc",
     tc_out  |-> kind = "text_tc"]

\* frame i of call c's connection, of the given kind: ok = json_format.Parse
\* succeeds; out_text / tc_out = server_output.text / .turn_complete;
\* content = the text fields of response.content; tc_top = turn_complete
Frame(c, i, kind) ==
    [ok      |-> kind # "bad",
     out_text|-> IF kind \in {"text", "text_tc"} THEN FragText(c, i) ELSE <<>>,
     content |-> IF kind = "content"
                 THEN <<FragText(c, i), <<>>, FragText(c, i)>> ELSE <<>>,
     tc_top  |-> kind = "tc",
     tc_out  |-> kind = "text_tc"]

\* a proto sub-message is truthy when one of its fields is set
ServerOutputSet(f) == f.out_text # <<>> \/ f.tc_out

\* BidiSessionClient._extract_bidi_response_text
extract_bidi_response_text(f) ==
    LET texts == (IF ServerOutputSet(f) /\ f.out_text # <<>>
                  THEN <<f.out_text>> ELSE <<>>)
                 \o SelectSeq(f.content, IsNonEmpty)
    IN IF texts # <<>> THEN JoinWith(NL, texts) ELSE None

\* BidiSessionClient._is_final_response
is_final_response(f) ==
    IF f.tc_top THEN TRUE
    ELSE IF ServerOutputSet(f) /\ f.tc_out THEN TRUE
    ELSE FALSE

\* ------------------------------------------------------------------ state
Alive(t) == t \in Calls /\ wk[t] \notin {"none", "dead"}

\* the calling thread of c is between its reset of the fields and its return
Active(c) == pc[c] \in {"token", "wait", "cleanup", "join", "finish"}

\* the connection of c is closed, by either side
IsClosed(c) == conn[c] \in {"closed", "lost"}

\* the state after main() and BidiSessionClient.__init__
InitState ==
    /\ tg_user_sessions = [k \in TgChats |-> None]
    /\ slack_user_sessions = <<>>
    /\ now = 0
    /\ last_call = NoCall
    /\ chat_id = [c \in Calls |-> 0]
    /\ session_id = [c \in Calls |-> None]
    /\ replies = [c \in Calls |-> <<>>]
    /\ self_responses = <<>>
    /\ self_response_event = FALSE
    /\ self_connected = FALSE
    /\ self_error = None
    /\ self_ws = 0
    /\ self_ws_thread = 0
    /\ pc = [c \in Calls |-> "idle"]
    /\ on_response = [c \in Calls |-> "none"]
    /\ timedOut = [c \in Calls |-> FALSE]
    /\ closeCalls = [c \in Calls |-> 0]
    /\ joinCalls = [c \in Calls |-> 0]
    /\ result = [c \in Calls |-> None]
    /\ exc = [c \in Calls |-> "none"]
    /\ wk = [c \in Calls |-> "none"]
    /\ conn = [c \in Calls |-> "none"]
    /\ sent = [c \in Calls |-> <<>>]
    /\ frames = [c \in Calls |-> <<>>]
    /\ cbLog = [c \in Calls |-> <<>>]
    /\ errBy = [c \in Calls |-> FALSE]
    /\ sync_requests = [c \in Calls |-> 0]
    /\ token_requests = [c \in Calls |-> 0]
    /\ sync_response = [c \in Calls |-> [outputs |-> <<>>, content |-> <<>>]]

\* no call of send_long_message is being followed
ChunkIdle ==
    /\ ch_text = <<>>
    /\ ch_max = TelegramLimit
    /\ ch_pc = "idle"
    /\ ch_lines = <<>>
    /\ ch_chunks = <<>>
    /\ ch_current = <<>>
    /\ ch_line = <<>>
    /\ ch_sent = <<>>

Init ==
    /\ use_bidi_session \in BOOLEAN
    /\ ces_deployment_id \in {None, DeploymentId}
    /\ InitState
    /\ ChunkIdle

InitShared ==
    /\ use_bidi_session = TRUE
    /\ ces_deployment_id = None
    /\ InitState
    /\ ChunkIdle

\* send_message or run_session has raised / returned
Raised(c) == pc[c] = "raised" \/ (pc[c] = "replied" /\ exc[c] # "none")
Returned(c) == pc[c] = "returned" \/ (pc[c] = "replied" /\ exc[c] = "none")
Finished(c) == Raised(c) \/ Returned(c)

\* ------------------------------------------------------- handle_message
\* "Sorry, I encountered an error processing your message. Please try again
\* later.", written "Sorry"
Apology == <<83, 111, 114, 114, 121>>
\* "I received your message but didn't get a response. Please try again.",
\* written "I received"
NoResponse == <<73, 32, 114, 101, 99, 101, 105, 118, 101, 100>>

\* handle_message, lines 162-176: the message of chat cid arrives, its
\* session is resolved and the configured client is chosen (the calls are
\* numbered in the order in which they start)
handle_message(c, cid) ==
    /\ pc[c] = "idle"
    /\ \A d \in Calls : d < c => pc[d] # "idle"
    /\ chat_id' = [chat_id EXCEPT ![c] = cid]
    /\ tg_user_sessions' = tg_get_session_id(tg_user_sessions, cid)
    /\ session_id' = [session_id EXCEPT ![c] = tg_user_sessions'[cid]]
    /\ pc' = [pc EXCEPT ![c] =
              IF use_bidi_session THEN "send_message" ELSE "run_session"]
    /\ UNCHANGED <<configVars, authVars, replies, regVars, chunkVars, syncVars,
                   clientVars,
                   on_response,
                   timedOut, closeCalls, joinCalls, result, exc, workerVars,
                   histVars>>

\* CESClient.run_session, lines 67-88, returns the extracted text
RunSessionReturns(c, response) ==
    /\ pc[c] = "run_session"
    /\ sync_requests' = [sync_requests EXCEPT ![c] = @ + 1]
    /\ sent' = [sent EXCEPT ![c] = Append(@,
           RunSessionRequest(get_session_name(session_id[c]), user_message(c)))]
    /\ sync_response' = [sync_response EXCEPT ![c] = response]
    /\ result' = [result EXCEPT ![c] = extract_response_text(response)]
    /\ pc' = [pc EXCEPT ![c] = "returned"]
    /\ UNCHANGED <<configVars, authVars, tg_user_sessions, chat_id, session_id,
                   replies, regVars, chunkVars, clientVars, on_response,
                   timedOut, closeCalls, joinCalls, exc, wk, conn, frames, cbLog, histVars>>

RunSessionRetries(c) ==
    /\ pc[c] = "run_session"
    /\ sync_requests[c] < 2
    /\ sync_requests' = [sync_requests EXCEPT ![c] = @ + 1]
    /\ sent' = [sent EXCEPT ![c] = Append(@,
           RunSessionRequest(get_session_name(session_id[c]), user_message(c)))]
    /\ UNCHANGED <<configVars, authVars, tg_user_sessions, chat_id, session_id,
                   replies, regVars, chunkVars, sync_response, clientVars,
                   callVars, wk, conn, frames, cbLog, histVars>>

\* CESClient.run_session, lines 90-92: the request failed, the exception is
\* raised again
RunSessionRaises(c) ==
    /\ pc[c] = "run_session"
    /\ sync_requests' = [sync_requests EXCEPT ![c] = @ + 1]
    /\ sent' = [sent EXCEPT ![c] = Append(@,
           RunSessionRequest(get_session_name(session_id[c]), user_message(c)))]
    /\ exc' = [exc EXCEPT ![c] = "request"]
    /\ pc' = [pc EXCEPT ![c] = "raised"]
    /\ UNCHANGED <<configVars, authVars, tg_user_sessions, chat_id, session_id,
                   replies, regVars, chunkVars, sync_response, clientVars,
                   on_response, timedOut, closeCalls, joinCalls, result,
                   wk, conn, frames, cbLog, histVars>>

\* handle_message, lines 187-200: what is sent back for the outcome
ReplyForUnguarded(raised, response_text) ==
    IF response_text # <<>>
    THEN send_long_message(response_text, TelegramLimit)
    ELSE <<NoResponse>>

\* the reply handle_message sends
ReplyFor(raised, response_text) ==
    IF raised THEN <<Apology>>
    ELSE IF response_text # <<>>
         THEN send_long_message(response_text, TelegramLimit)
         ELSE <<NoResponse>>

\* handle_message, lines 187-200
Reply(c) ==
    /\ pc[c] \in {"returned", "raised"}
    /\ replies' = [replies EXCEPT ![c] = ReplyFor(pc[c] = "raised", result[c])]
    /\ pc' = [pc EXCEPT ![c] = "replied"]
    /\ UNCHANGED <<configVars, authVars, regVars, chunkVars, syncVars,
                   tg_user_sessions, chat_id,
                   session_id,
                   clientVars, on_response, timedOut, closeCalls, joinCalls,
                   result, exc, workerVars, histVars>>

\* ------------------------------------------------- the calling thread
\* send_message, lines 195-202: the fields of self are reset
ResetState(c, cb) ==
    /\ pc[c] = "send_message"
    /\ self_responses' = <<>>
    /\ self_response_event' = FALSE
    /\ self_connected' = FALSE
    /\ self_error' = None
    /\ on_response' = [on_response EXCEPT ![c] = cb]
    /\ pc' = [pc EXCEPT ![c] = "token"]
    /\ UNCHANGED <<bridgeVars, self_ws, self_ws_thread, timedOut, closeCalls,
                   joinCalls, result, exc, workerVars, histVars>>

GetTokenFailsConnected(c) ==
    /\ pc[c] = "token"
    /\ token_requests' = [token_requests EXCEPT ![c] = @ + 1]
    /\ exc' = [exc EXCEPT ![c] = "auth"]
    /\ wk' = [wk EXCEPT ![c] = "connecting"]
    /\ conn' = [conn EXCEPT ![c] = "connecting"]
    /\ pc' = [pc EXCEPT ![c] = "raised"]
    /\ UNCHANGED <<configVars, tg_user_sessions, chat_id, session_id, replies,
                   regVars, chunkVars, syncVars, clientVars, on_response, timedOut, closeCalls,
                   joinCalls, result, sent, frames, cbLog, histVars>>

\* lines 204-209, _get_auth_token raises: the exception leaves send_message
GetTokenFails(c) ==
    /\ pc[c] = "token"
    /\ token_requests' = [token_requests EXCEPT ![c] = @ + 1]
    /\ exc' = [exc EXCEPT ![c] = "auth"]
    /\ pc' = [pc EXCEPT ![c] = "raised"]
    /\ UNCHANGED <<configVars, tg_user_sessions, chat_id, session_id, replies,
                   regVars, chunkVars, syncVars, clientVars, on_response, timedOut, closeCalls,
                   joinCalls, result, workerVars, histVars>>

\* lines 204-206 and 283-297: token obtained, ws_app created, thread started
StartWorker(c) ==
    /\ pc[c] = "token"
    /\ token_requests' = [token_requests EXCEPT ![c] = @ + 1]
    /\ self_ws' = c
    /\ self_ws_thread' = c
    /\ wk' = [wk EXCEPT ![c] = "connecting"]
    /\ conn' = [conn EXCEPT ![c] = "connecting"]
    /\ pc' = [pc EXCEPT ![c] = "wait"]
    /\ UNCHANGED <<configVars, tg_user_sessions, chat_id, session_id, replies,
                   regVars, chunkVars, syncVars, self_responses, self_response_event,
                   self_connected, self_error, on_response, timedOut,
                   closeCalls, joinCalls, result, exc, sent, frames, cbLog,
                   histVars>>

\* ws_app.close() on the call's own ws_app (a local of send_message): the
\* connection is closed unless it already is
Closed(c) == IF IsClosed(c) THEN conn ELSE [conn EXCEPT ![c] = "closed"]

\* line 300, wait returned True: the event is set
WaitSignalled(c) ==
    /\ pc[c] = "wait"
    /\ self_response_event
    /\ pc' = [pc EXCEPT ![c] = "cleanup"]
    /\ UNCHANGED <<bridgeVars, clientVars, on_response, timedOut, closeCalls,
                   joinCalls, result, exc, workerVars, histVars>>

WaitForever(c) ==
    /\ pc[c] = "wait"
    /\ ~self_response_event
    /\ UNCHANGED vars

\* lines 300-302, wait returned False after timeout seconds: ws_app.close()
WaitTimeout(c) ==
    /\ pc[c] = "wait"
    /\ ~self_response_event
    /\ timedOut' = [timedOut EXCEPT ![c] = TRUE]
    /\ closeCalls' = [closeCalls EXCEPT ![c] = @ + 1]
    /\ conn' = Closed(c)
    /\ pc' = [pc EXCEPT ![c] = "cleanup"]
    /\ UNCHANGED <<bridgeVars, clientVars, on_response, joinCalls, result,
                   exc, wk, sent, frames, cbLog, histVars>>

\* lines 305-306: if self._ws_thread.is_alive(): ws_app.close()
Cleanup(c) ==
    /\ pc[c] = "cleanup"
    /\ IF Alive(self_ws_thread)
       THEN /\ closeCalls' = [closeCalls EXCEPT ![c] = @ + 1]
            /\ conn' = Closed(c)
            /\ pc' = [pc EXCEPT ![c] = "join"]
       ELSE /\ pc' = [pc EXCEPT ![c] = "finish"]
            /\ UNCHANGED <<closeCalls, conn>>
    /\ UNCHANGED <<bridgeVars, clientVars, on_response, timedOut, joinCalls,
                   result, exc, wk, sent, frames, cbLog, histVars>>

\* line 307: self._ws_thread.join(timeout=2.0) returns because the thread
\* has ended
JoinEnds(c) ==
    /\ pc[c] = "join"
    /\ ~Alive(self_ws_thread)
    /\ joinCalls' = [joinCalls EXCEPT ![c] = @ + 1]
    /\ pc' = [pc EXCEPT ![c] = "finish"]
    /\ UNCHANGED <<bridgeVars, clientVars, on_response, timedOut, closeCalls,
                   result, exc, workerVars, histVars>>

\* line 307: join(timeout=2.0) returns because the 2 seconds elapsed while
\* the thread is still running (join does not report which)
JoinTimesOut(c) ==
    /\ pc[c] = "join"
    /\ Alive(self_ws_thread)
    /\ joinCalls' = [joinCalls EXCEPT ![c] = @ + 1]
    /\ pc' = [pc EXCEPT ![c] = "finish"]
    /\ UNCHANGED <<bridgeVars, clientVars, on_response, timedOut, closeCalls,
                   result, exc, workerVars, histVars>>

\* lines 309-312: raise if self._error, else "\n".join(self._responses)
FinishRaisesTimeout(c) ==
    /\ pc[c] = "finish"
    /\ IF timedOut[c] \/ Truthy(self_error)
       THEN /\ pc' = [pc EXCEPT ![c] = "raised"]
            /\ exc' = [exc EXCEPT ![c] =
                   IF timedOut[c] THEN "timeout" ELSE "websocket"]
            /\ UNCHANGED result
       ELSE /\ pc' = [pc EXCEPT ![c] = "returned"]
            /\ result' = [result EXCEPT ![c] =
                   IF self_responses # <<>> THEN JoinWith(NL, self_responses)
                   ELSE <<>>]
            /\ UNCHANGED exc
    /\ UNCHANGED <<bridgeVars, clientVars, on_response, timedOut, closeCalls,
                   joinCalls, workerVars, histVars>>

\* send_message, lines 309-312
Finish(c) ==
    /\ pc[c] = "finish"
    /\ IF Truthy(self_error)
       THEN /\ pc' = [pc EXCEPT ![c] = "raised"]
            /\ exc' = [exc EXCEPT ![c] = "websocket"]
            /\ UNCHANGED result
       ELSE /\ pc' = [pc EXCEPT ![c] = "returned"]
            /\ result' = [result EXCEPT ![c] =
                   IF self_responses # <<>> THEN JoinWith(NL, self_responses)
                   ELSE <<>>]
            /\ UNCHANGED exc
    /\ UNCHANGED <<bridgeVars, clientVars, on_response, timedOut, closeCalls,
                   joinCalls, workerVars, histVars>>

\* ---------------------------------------------------- the worker thread
\* the worker of c records that it set the error slot
SetsError(c) == errBy' = [errBy EXCEPT ![c] = @ \/ Active(c)]

\* on_open, lines 211-243: n of the two frames are sent before a send or a
\* serialisation raises (n = 2: none raises); msg = str(e) of the exception
on_open(c, n, msg) ==
    /\ wk[c] = "connecting"
    /\ conn[c] = "connecting"
    /\ self_connected' = TRUE
    /\ sent' = [sent EXCEPT ![c] =
           SubSeq(<<ConfigFrame(get_session_name(session_id[c])),
                    InputFrame(user_message(c))>>, 1, n)]
    /\ IF n = 2
       THEN /\ wk' = [wk EXCEPT ![c] = "open"]
            /\ conn' = [conn EXCEPT ![c] = "open"]
            /\ UNCHANGED <<self_error, errBy>>
       ELSE /\ self_error' = msg
            /\ SetsError(c)
            /\ conn' = Closed(c)
            /\ wk' = [wk EXCEPT ![c] = "closing"]
    /\ UNCHANGED <<bridgeVars, self_responses, self_response_event, self_ws,
                   self_ws_thread, callVars, frames, cbLog>>

on_message_prepends(c, kind) ==
    /\ wk[c] = "open"
    /\ conn[c] = "open"
    /\ Len(frames[c]) < MaxFrames
    /\ frames' = [frames EXCEPT ![c] = Append(@, kind)]
    /\ LET f == Frame(c, Len(frames[c]) + 1, kind)
           text == extract_bidi_response_text(f)
           \* the exception of on_response(text) is caught at line 268
           cbRaises == f.ok /\ Truthy(text) /\ on_response[c] = "raises"
       IN /\ self_responses' =
                 IF f.ok /\ Truthy(text) THEN <<text>> \o self_responses
                 ELSE self_responses
          /\ cbLog' =
                 IF f.ok /\ Truthy(text) /\ on_response[c] # "none"
                 THEN [cbLog EXCEPT ![c] = Append(@, text)] ELSE cbLog
          /\ IF f.ok /\ ~cbRaises /\ is_final_response(f)
             THEN self_response_event' = TRUE
             ELSE UNCHANGED self_response_event
    /\ UNCHANGED <<bridgeVars, self_connected, self_error, self_ws,
                   self_ws_thread, callVars, wk, conn, sent, errBy>>

\* on_message, lines 245-269, for the next inbound frame
on_message(c, kind) ==
    /\ wk[c] = "open"
    /\ conn[c] = "open"
    /\ Len(frames[c]) < MaxFrames
    /\ frames' = [frames EXCEPT ![c] = Append(@, kind)]
    /\ LET f == Frame(c, Len(frames[c]) + 1, kind)
           text == extract_bidi_response_text(f)
           \* the exception of on_response(text) is caught at line 268
           cbRaises == f.ok /\ Truthy(text) /\ on_response[c] = "raises"
       IN /\ self_responses' =
                 IF f.ok /\ Truthy(text) THEN Append(self_responses, text)
                 ELSE self_responses
          /\ cbLog' =
                 IF f.ok /\ Truthy(text) /\ on_response[c] # "none"
                 THEN [cbLog EXCEPT ![c] = Append(@, text)] ELSE cbLog
          /\ IF f.ok /\ ~cbRaises /\ is_final_response(f)
             THEN self_response_event' = TRUE
             ELSE UNCHANGED self_response_event
    /\ UNCHANGED <<bridgeVars, self_connected, self_error, self_ws,
                   self_ws_thread, callVars, wk, conn, sent, errBy>>

\* on_error, lines 271-274: the connection attempt failed or the connection
\* broke; run_forever then tears down
on_error(c, msg) ==
    /\ wk[c] \in {"connecting", "open"}
    /\ self_error' = msg
    /\ SetsError(c)
    /\ self_response_event' = TRUE
    /\ conn' = IF IsClosed(c) THEN conn ELSE [conn EXCEPT ![c] = "lost"]
    /\ wk' = [wk EXCEPT ![c] = "closing"]
    /\ UNCHANGED <<bridgeVars, self_responses, self_connected, self_ws,
                   self_ws_thread, callVars, sent, frames, cbLog>>

\* the server closes the connection: run_forever leaves its read loop
ServerClose(c) ==
    /\ wk[c] = "open"
    /\ conn[c] = "open"
    /\ conn' = [conn EXCEPT ![c] = "lost"]
    /\ wk' = [wk EXCEPT ![c] = "closing"]
    /\ UNCHANGED <<bridgeVars, clientVars, callVars, sent, frames, cbLog,
                   histVars>>

\* run_forever leaves its loop after the calling thread's ws_app.close()
NoticeClose(c) ==
    /\ wk[c] \in {"connecting", "open"}
    /\ conn[c] = "closed"
    /\ wk' = [wk EXCEPT ![c] = "closing"]
    /\ UNCHANGED <<bridgeVars, clientVars, callVars, conn, sent, frames,
                   cbLog, histVars>>

\* on_close, lines 276-281
on_close(c) ==
    /\ wk[c] = "closing"
    /\ self_connected' = FALSE
    /\ self_response_event' = TRUE
    /\ wk' = [wk EXCEPT ![c] = "exiting"]
    /\ UNCHANGED <<bridgeVars, self_responses, self_error, self_ws,
                   self_ws_thread, callVars, conn, sent, frames, cbLog,
                   histVars>>

\* run_forever returns: the thread ends
WorkerExit(c) ==
    /\ wk[c] = "exiting"
    /\ wk' = [wk EXCEPT ![c] = "dead"]
    /\ UNCHANGED <<bridgeVars, clientVars, callVars, conn, sent, frames,
                   cbLog, histVars>>

\* --------------------------------------------------------- specification
\* the steps of the calling thread inside send_message
Caller(c) ==
    \/ GetTokenFails(c)
    \/ StartWorker(c)
    \/ WaitSignalled(c)
    \/ WaitTimeout(c)
    \/ Cleanup(c)
    \/ JoinEnds(c)
    \/ JoinTimesOut(c)
    \/ Finish(c)

\* the steps of the worker thread, but for on_message; msgs are the str(e)
\* of the exceptions it may meet
Worker(c, msgs) ==
    \/ \E n \in 0..2, msg \in msgs : on_open(c, n, msg)
    \/ \E msg \in msgs : on_error(c, msg)
    \/ ServerClose(c)
    \/ NoticeClose(c)
    \/ on_close(c)
    \/ WorkerExit(c)

Next ==
    \/ \E cid \in TgChats : handle_message(1, cid)
    \/ \E response \in SyncResponses : RunSessionReturns(1, response)
    \/ RunSessionRaises(1)
    \/ \E cb \in {"none", "ok", "raises"} : ResetState(1, cb)
    \/ Caller(1)
    \/ \E kind \in FrameKinds : on_message(1, kind)
    \/ Worker(1, ErrMsgs)
    \/ Reply(1)

Spec == Init /\ [][Next]_vars

\* the calling thread keeps running: it is a thread of the executor, and
\* wait(timeout) and join(timeout) return after their timeouts at the latest
CallerFairness ==
    /\ WF_vars(\E cb \in {"none", "ok", "raises"} : ResetState(1, cb))
    /\ WF_vars(Caller(1))

SpecLive == Init /\ [][Next]_vars /\ CallerFairness

\* the inbound frames handled so far, over all connections
RECURSIVE TotalFrames(_)
TotalFrames(cs) ==
    IF cs = {} THEN 0
    ELSE LET c == CHOOSE x \in cs : TRUE
         IN Len(frames[c]) + TotalFrames(cs \ {c})

NextShared ==
    \E c \in Calls :
        \/ handle_message(c, 12)
        \/ ResetState(c, "none")
        \/ Caller(c)
        \/ \E kind \in {"text", "text_tc"} :
               TotalFrames(Calls) < MaxSharedFrames /\ on_message(c, kind)
        \/ Worker(c, {<<101>>})
        \/ Reply(c)

SpecShared == InitShared /\ [][NextShared]_vars

\* ------------------------------------------------------ registry calls
otherVars == <<configVars, authVars, chat_id, session_id, replies, clientVars,
               callVars, workerVars, histVars, chunkVars, syncVars>>

\* telegram/main.py get_session_id(cid)
TgGetSessionId(cid) ==
    /\ tg_user_sessions' = tg_get_session_id(tg_user_sessions, cid)
    /\ last_call' = [op |-> "get", platform |-> "telegram", key |-> cid,
                     prev |-> tg_user_sessions[cid],
                     sanitized |-> tg_user_sessions[cid] = None,
                     ret |-> tg_user_sessions'[cid]]
    /\ UNCHANGED <<slack_user_sessions, now, otherVars>>

\* telegram/main.py reset_session: the new id
tg_reset_id(cid, t) ==
    LET new_session_id == TelegramPrefix \o IntToStr(Abs(cid)) \o <<45>>
                          \o IntToStr(t)
    IN IF Len(new_session_id) > 63 THEN Take(new_session_id, 63)
       ELSE new_session_id

\* telegram/main.py reset_session(cid)
TgResetSessionAbsKey(cid) ==
    /\ tg_user_sessions' =
           [tg_user_sessions EXCEPT ![Abs(cid)] =
                                        tg_reset_id(cid, StartTime + now)]
    /\ last_call' = [op |-> "reset", platform |-> "telegram", key |-> cid,
                     prev |-> tg_user_sessions[cid],
                     sanitized |-> FALSE, ret |-> tg_user_sessions'[cid]]
    /\ UNCHANGED <<slack_user_sessions, now, otherVars>>

\* telegram/main.py reset_session(cid)
TgResetSession(cid) ==
    /\ tg_user_sessions' =
           [tg_user_sessions EXCEPT ![cid] = tg_reset_id(cid, StartTime + now)]
    /\ last_call' = [op |-> "reset", platform |-> "telegram", key |-> cid,
                     prev |-> tg_user_sessions[cid],
                     sanitized |-> FALSE, ret |-> tg_user_sessions'[cid]]
    /\ UNCHANGED <<slack_user_sessions, now, otherVars>>

\* dict lookup and store
Has(d, k) == k \in DOMAIN d
Get(d, k) == IF k \in DOMAIN d THEN d[k] ELSE None
Put(d, k, v) == [x \in DOMAIN d \cup {k} |-> IF x = k THEN v ELSE d[x]]

\* slack/main.py get_session_id(channel_id, thread_ts)
SlackGetSessionId(channel_id, thread_ts) ==
    LET key == SlackKey(channel_id, thread_ts) IN
    /\ slack_user_sessions' =
           IF ~Has(slack_user_sessions, key)
           THEN Put(slack_user_sessions, key,
                    slack_sanitize_session_id(channel_id, thread_ts))
           ELSE slack_user_sessions
    /\ last_call' = [op |-> "get", platform |-> "slack", key |-> key,
                     prev |-> Get(slack_user_sessions, key),
                     sanitized |-> ~Has(slack_user_sessions, key),
                     ret |-> slack_user_sessions'[key]]
    /\ UNCHANGED <<tg_user_sessions, now, otherVars>>

\* slack/main.py reset_session: the new id
slack_reset_id(channel_id, t) ==
    LET new_session == SlackPrefix \o channel_id \o <<45>> \o IntToStr(t)
    IN IF Len(new_session) > 63 THEN Take(new_session, 63) ELSE new_session

\* slack/main.py reset_session(channel_id, thread_ts)
SlackResetUnderChannelKey(channel_id, thread_ts) ==
    LET key == SlackKey(channel_id, thread_ts) IN
    /\ slack_user_sessions' =
           Put(slack_user_sessions, SlackKey(channel_id, None),
               slack_reset_id(channel_id, StartTime + now))
    /\ last_call' = [op |-> "reset", platform |-> "slack", key |-> key,
                     prev |-> Get(slack_user_sessions, key),
                     sanitized |-> FALSE,
                     ret |-> slack_reset_id(channel_id, StartTime + now)]
    /\ UNCHANGED <<tg_user_sessions, now, otherVars>>

\* slack/main.py reset_session(channel_id, thread_ts)
SlackResetSession(channel_id, thread_ts) ==
    LET key == SlackKey(channel_id, thread_ts) IN
    /\ slack_user_sessions' =
           Put(slack_user_sessions, key,
               slack_reset_id(channel_id, StartTime + now))
    /\ last_call' = [op |-> "reset", platform |-> "slack", key |-> key,
                     prev |-> Get(slack_user_sessions, key),
                     sanitized |-> FALSE, ret |-> slack_user_sessions'[key]]
    /\ UNCHANGED <<tg_user_sessions, now, otherVars>>

\* a second passes on the clock time.time() reads
Tick ==
    /\ now < MaxTicks
    /\ now' = now + 1
    /\ UNCHANGED <<tg_user_sessions, slack_user_sessions, last_call, otherVars>>

NextRegistry ==
    \/ \E cid \in TgChats : TgGetSessionId(cid)
    \/ \E cid \in TgChats : TgResetSession(cid)
    \/ \E x \in SlackContexts : SlackGetSessionId(x[1], x[2])
    \/ \E x \in SlackContexts : SlackResetSession(x[1], x[2])
    \/ Tick

\* the bridges just started, before any message
InitRegistry ==
    /\ use_bidi_session = FALSE
    /\ ces_deployment_id = None
    /\ InitState
    /\ ChunkIdle

SpecRegistry == InitRegistry /\ [][NextRegistry]_vars

\* ------------------------------------------- send_long_message, by steps
\* longest text handed to send_long_message
MaxTextLen == 6
\* largest max_length handed to send_long_message
MaxChunkLen == 3

\* the characters of the texts: 'a', 'b', ' ' and the line break
ChunkChars == {97, 98, 32, NL}

\* the texts of at most MaxTextLen characters
ChunkTexts == UNION {[1..n -> ChunkChars] : n \in 0..MaxTextLen}

\* send_long_message is called with a text and a positive max_length
InitChunk ==
    /\ use_bidi_session = FALSE
    /\ ces_deployment_id = None
    /\ InitState
    /\ ch_text \in ChunkTexts
    /\ ch_max \in 1..MaxChunkLen
    /\ ch_pc = "call"
    /\ ch_lines = <<>>
    /\ ch_chunks = <<>>
    /\ ch_current = <<>>
    /\ ch_line = <<>>
    /\ ch_sent = <<>>

notChunkVars == <<configVars, authVars, tg_user_sessions, chat_id, session_id,
                  replies, regVars, syncVars, clientVars, callVars, workerVars,
                  histVars>>

\* lines 212-218: a text that fits is sent whole
SendWhole ==
    /\ ch_pc = "call"
    /\ Len(ch_text) <= ch_max
    /\ ch_sent' = <<ch_text>>
    /\ ch_pc' = "done"
    /\ UNCHANGED <<ch_text, ch_max, ch_lines, ch_chunks, ch_current, ch_line,
                   notChunkVars>>

\* lines 216-220: otherwise the text is split into its lines
StartSplit ==
    /\ ch_pc = "call"
    /\ Len(ch_text) > ch_max
    /\ ch_lines' = SplitLines(ch_text)
    /\ ch_chunks' = <<>>
    /\ ch_current' = <<>>
    /\ ch_pc' = "for"
    /\ UNCHANGED <<ch_text, ch_max, ch_line, ch_sent, notChunkVars>>

\* lines 220-230: one iteration of the for loop; for a line longer than
\* max_length it goes up to the while loop, which then runs step by step
ForLine ==
    /\ ch_pc = "for"
    /\ ch_lines # <<>>
    /\ LET line == Head(ch_lines) IN
       IF Len(line) > ch_max
       THEN /\ ch_chunks' = IF ch_current # <<>>
                            THEN Append(ch_chunks, Strip(ch_current))
                            ELSE ch_chunks
            /\ ch_line' = line
            /\ ch_pc' = "while"
            /\ UNCHANGED ch_current
       ELSE LET r == ChunkLines(<<line>>, ch_max, ch_chunks, ch_current)
            IN /\ ch_chunks' = r.chunks
               /\ ch_current' = r.current_chunk
               /\ UNCHANGED <<ch_line, ch_pc>>
    /\ ch_lines' = Tail(ch_lines)
    /\ UNCHANGED <<ch_text, ch_max, ch_sent, notChunkVars>>

\* lines 227-229: one iteration of while len(line) > max_length
WhileStep ==
    /\ ch_pc = "while"
    /\ Len(ch_line) > ch_max
    /\ ch_chunks' = Append(ch_chunks, Take(ch_line, ch_max))
    /\ ch_line' = Drop(ch_line, ch_max)
    /\ UNCHANGED <<ch_text, ch_max, ch_pc, ch_lines, ch_current, ch_sent,
                   notChunkVars>>

\* lines 227 and 230: the while loop ends, current_chunk = line + "\n"
WhileEnd ==
    /\ ch_pc = "while"
    /\ Len(ch_line) <= ch_max
    /\ ch_current' = ch_line \o <<NL>>
    /\ ch_pc' = "for"
    /\ UNCHANGED <<ch_text, ch_max, ch_lines, ch_chunks, ch_line, ch_sent,
                   notChunkVars>>

\* lines 232-236: the last chunk is flushed and the chunks are sent
SendChunks ==
    /\ ch_pc = "for"
    /\ ch_lines = <<>>
    /\ ch_chunks' = IF Strip(ch_current) # <<>>
                    THEN Append(ch_chunks, Strip(ch_current))
                    ELSE ch_chunks
    /\ ch_sent' = ch_chunks'
    /\ ch_pc' = "done"
    /\ UNCHANGED <<ch_text, ch_max, ch_lines, ch_current, ch_line, notChunkVars>>

NextChunk ==
    \/ SendWhole
    \/ StartSplit
    \/ ForLine
    \/ WhileStep
    \/ WhileEnd
    \/ SendChunks

SpecChunk == InitChunk /\ [][NextChunk]_vars

\* send_long_message runs on: its loops have no await and no blocking call
SpecChunkLive == InitChunk /\ [][NextChunk]_vars /\ WF_vars(NextChunk)

\* ------------------------------------------------------------ the claims
RECURSIVE FragmentsOf(_, _, _)
\* the fragments on_message extracts from frames i..n of c's connection
FragmentsOf(c, i, n) ==
    IF i > n THEN <<>>
    ELSE LET f == Frame(c, i, frames[c][i])
             text == extract_bidi_response_text(f)
         IN (IF f.ok /\ Truthy(text) THEN <<text>> ELSE <<>>)
            \o FragmentsOf(c, i + 1, n)

\* the frames of c's connection that parse and carry the completion flag
FinalFrames(c) ==
    {i \in 1..Len(frames[c]) :
        LET f == Frame(c, i, frames[c][i]) IN f.ok /\ is_final_response(f)}

\* the first of them, 0 when there is none
FirstFinal(c) ==
    IF FinalFrames(c) = {} THEN 0
    ELSE CHOOSE i \in FinalFrames(c) : \A j \in FinalFrames(c) : i <= j

\* send_message of c got past the token: it created a connection and a worker
Streamed(c) == wk[c] # "none"

\* the characters of the texts the server sends on c's connection
OwnChars(c) == {FragText(c, i)[1] : i \in 1..(MaxFrames + MaxSharedFrames)}

\* a step of the worker thread of d
WorkerStep(d) ==
    /\ wk[d] # "none"
    /\ wk'[d] # wk[d] \/ frames'[d] # frames[d]

\* C1: whichever path ends a streaming call, at its return the connection it
\* opened is closed and its worker has been joined exactly once. Stated in
\* the code's favour: a worker that had already ended need not be joined, and
\* a repeated close request is not counted.
C1_CleanupOnceBeforeReturn ==
    \A c \in Calls :
        Finished(c) /\ Streamed(c) =>
            /\ IsClosed(c)
            /\ joinCalls[c] <= 1
            /\ joinCalls[c] = 1 \/ ~Alive(c)

\* C2: when a streaming call has returned or raised after its timeout
\* fired, its connection is closed and its worker thread is not running.
C2_NoDanglingAfterTimeout ==
    \A c \in Calls :
        Finished(c) /\ timedOut[c] => IsClosed(c) /\ ~Alive(c)

\* C3: the exchange state belongs to the call that created it: the text a
\* call returns is made of fragments of its own connection only, and no step
\* of another call's worker sets the completion signal or the error slot
\* while the call is running.
C3_ExchangeOwnedByCall ==
    /\ [](\A c \in Calls :
            Returned(c) /\ Streamed(c) =>
                \A j \in 1..Len(result[c]) :
                    result[c][j] \in OwnChars(c) \cup {NL})
    /\ [][\A c, d \in Calls :
            c # d /\ Active(c) /\ WorkerStep(d) =>
                /\ self_response_event' = self_response_event
                /\ self_error' = self_error]_vars

\* C4: if the first frame carrying the completion flag is the k-th, the call
\* returns the newline-join of the fragments of frames 1..k, released by that
\* frame and not by the timeout. Stated for the calls the handler makes,
\* which pass no per-fragment callback.
C4_ReturnsUpToCompletion ==
    \A c \in Calls :
        Finished(c) /\ FirstFinal(c) > 0 /\ on_response[c] = "none" =>
            /\ Returned(c)
            /\ result[c] = JoinWith(NL, FragmentsOf(c, 1, FirstFinal(c)))
            /\ ~timedOut[c]

\* C5: with no completion flag and no connection error or close, the call
\* blocks until the timeout and then returns the newline-join of the
\* fragments collected.
C5_BlocksUntilTimeout ==
    \A c \in Calls :
        /\ Finished(c) /\ Streamed(c)
        /\ FirstFinal(c) = 0 /\ ~errBy[c] /\ conn[c] # "lost"
        => /\ timedOut[c]
           /\ Returned(c)
           /\ result[c] = JoinWith(NL, FragmentsOf(c, 1, Len(frames[c])))

\* C6 as claimed: a call whose wait timed out reports a timeout error.
C6_TimeoutReported ==
    \A c \in Calls : Finished(c) /\ timedOut[c] => exc[c] = "timeout"

\* C6 as amended: a call whose wait timed out has force-closed its
\* connection and reports no timeout error: it returns the newline-join of
\* the fragments collected, unless the error slot is set, and then it raises
\* the generic WebSocket error.
C6_TimeoutDegrades ==
    /\ [](\A c \in Calls :
            Finished(c) /\ timedOut[c] =>
                /\ closeCalls[c] >= 1 /\ IsClosed(c)
                /\ \/ Returned(c) /\ exc[c] = "none" /\ result[c] # None
                   \/ Raised(c) /\ exc[c] = "websocket")
    /\ [][\A c \in Calls :
            timedOut[c] /\ pc[c] = "finish" /\ pc'[c] # "finish" =>
                IF Truthy(self_error) THEN pc'[c] = "raised"
                ELSE /\ pc'[c] = "returned"
                     /\ result'[c] = JoinWith(NL, self_responses)]_vars

\* C6 witness: a call timed out and returned the fragments it had
C6_Witness ==
    \E c \in Calls :
        Returned(c) /\ timedOut[c] /\ result[c] # <<>> /\ FirstFinal(c) = 0

\* C7: a streaming call raises exactly when its worker set the error slot
\* during the call; otherwise it returns the fragments joined with newline
\* in list order, the empty string when there is none.
C7_RaisesIffErrorSet ==
    \A c \in Calls :
        Finished(c) /\ Streamed(c) =>
            /\ Raised(c) <=> errBy[c]
            /\ Returned(c) =>
                   result[c] = JoinWith(NL, FragmentsOf(c, 1, Len(frames[c])))

\* C8: whatever error the chosen client raises, the handler sends the one
\* apology text, and the registry is as the lookup left it.
C8_FailureBecomesApology ==
    \A c \in Calls :
        pc[c] = "replied" /\ exc[c] # "none" =>
            /\ replies[c] = <<Apology>>
            /\ tg_user_sessions[chat_id[c]] = session_id[c]
            /\ \A k \in TgChats :
                   tg_user_sessions[k] # None => \E d \in Calls : chat_id[d] = k

\* C8 witness: the streaming client raised after its timeout and the
\* apology was sent
C8_Witness ==
    \E c \in Calls :
        pc[c] = "replied" /\ exc[c] = "websocket" /\ timedOut[c]

\* the SessionId constraint: 5 to 63 characters, the first alphanumeric,
\* all of them letters, digits, '-' or '_'
ValidSessionId(s) ==
    /\ s # None
    /\ Len(s) >= 5 /\ Len(s) <= 63
    /\ IsAlnum(s[1])
    /\ \A i \in 1..Len(s) : IsIdChar(s[i])

\* C9: every session id stored in a registry or returned by a resolve or a
\* reset satisfies the SessionId constraint, reset ids included.
C9_StoredIdsValid ==
    /\ \A cid \in TgChats :
           tg_user_sessions[cid] # None => ValidSessionId(tg_user_sessions[cid])
    /\ \A k \in DOMAIN slack_user_sessions :
           ValidSessionId(slack_user_sessions[k])
    /\ last_call.op # "none" => ValidSessionId(last_call.ret)

\* C10: what sanitize_session_id returns satisfies the SessionId constraint
\* for every input, and is a function of its arguments alone: a context is
\* given the same id whatever the clock and the registry held before.
C10_SanitizeValid ==
    /\ last_call.sanitized => ValidSessionId(last_call.ret)
    /\ \A cid \in TgChats :
           last_call.sanitized /\ last_call.platform = "telegram"
           /\ last_call.ret = tg_user_sessions[cid]
           => last_call.ret = tg_sanitize_session_id(cid)
    /\ last_call.sanitized /\ last_call.platform = "slack" =>
           \E x \in SlackContexts :
               /\ Has(slack_user_sessions, SlackKey(x[1], x[2]))
               /\ last_call.ret = slack_sanitize_session_id(x[1], x[2])

\* a Slack context whose channel id has a '.' and one whose id is cut at 63
\* characters have both been given a sanitized id
C10_Witness ==
    /\ last_call.sanitized /\ last_call.platform = "slack"
    /\ Len(last_call.ret) = 63
    /\ \E k \in DOMAIN slack_user_sessions :
           /\ \E i \in 1..Len(k) : k[i] = 46
           /\ slack_user_sessions[k] =
                  slack_sanitize_session_id(<<99, 46, 49>>, None)

\* C11: reset returns an id different from the one mapped to the key
\* immediately before it, also when that one came from a reset.
C11_ResetReturnsFreshId ==
    last_call.op = "reset" /\ last_call.prev # None
        => last_call.ret # last_call.prev

\* what the registry of the last call's platform holds under its key
StoredForLastCall ==
    IF last_call.platform = "telegram" THEN tg_user_sessions[last_call.key]
    ELSE Get(slack_user_sessions, last_call.key)

\* the step is a reset of key k on the given platform
IsResetOf(platform, k) ==
    /\ last_call'.op = "reset"
    /\ last_call'.platform = platform
    /\ last_call'.key = k

\* C12: resolve is idempotent: a resolve of a key that has an entry returns
\* that entry, and no call other than a reset of the key changes the entry,
\* whatever is done to other keys in between.
C12_ResolveIdempotent ==
    /\ [](last_call.op = "get" /\ last_call.prev # None
              => last_call.ret = last_call.prev)
    /\ [][/\ \A cid \in TgChats :
                 tg_user_sessions[cid] # None
                 /\ tg_user_sessions'[cid] # tg_user_sessions[cid]
                 => IsResetOf("telegram", cid)
          /\ \A k \in DOMAIN slack_user_sessions :
                 Get(slack_user_sessions', k) # slack_user_sessions[k]
                 => IsResetOf("slack", k)
          /\ last_call'.op = "get" /\ last_call' # last_call
                 => StoredForLastCall' = last_call'.ret]_vars

\* a resolve returns the entry a reset left, with other keys in the registry
C12_Witness ==
    /\ last_call.op = "get" /\ last_call.platform = "slack"
    /\ last_call.prev # None
    /\ last_call.ret = slack_reset_id(<<67, 49>>, StartTime + 1)
    /\ Cardinality(DOMAIN slack_user_sessions) >= 3

\* C13: reset overwrites the mapping: the id a reset returns is the one stored
\* under its key and the one later resolves return until the next reset of
\* the key; entries are created only by a call on their key and never removed.
C13_ResetOverwrites ==
    /\ [](last_call.op # "none" => StoredForLastCall = last_call.ret)
    /\ [][/\ \A cid \in TgChats :
                 /\ tg_user_sessions[cid] # None => tg_user_sessions'[cid] # None
                 /\ tg_user_sessions'[cid] # tg_user_sessions[cid]
                    => /\ last_call'.platform = "telegram"
                       /\ last_call'.key = cid
                       /\ last_call'.op = "reset" \/ tg_user_sessions[cid] = None
          /\ DOMAIN slack_user_sessions \subseteq DOMAIN slack_user_sessions'
          /\ \A k \in DOMAIN slack_user_sessions' :
                 Get(slack_user_sessions, k) # slack_user_sessions'[k]
                    => /\ last_call'.platform = "slack"
                       /\ last_call'.key = k
                       /\ last_call'.op = "reset" \/ ~Has(slack_user_sessions, k)
         ]_vars

\* a resolve of a thread's key returns the id of the reset made a second ago,
\* which replaced the sanitized id the key had first
C13_Witness ==
    /\ last_call.op = "get" /\ last_call.platform = "slack"
    /\ last_call.key = SlackKey(<<67, 49>>, <<49, 55, 46, 53>>)
    /\ now = 2
    /\ last_call.ret = slack_reset_id(<<67, 49>>, StartTime + 1)
    /\ last_call.ret # slack_sanitize_session_id(<<67, 49>>, <<49, 55, 46, 53>>)

\* the steps of send_long_message compute send_long_message
ChunkStepsAgree ==
    ch_pc = "done" => ch_sent = send_long_message(ch_text, ch_max)

\* C14: no piece the chunker produces is longer than max_length.
C14_PiecesWithinLimit ==
    /\ \A i \in 1..Len(ch_chunks) : Len(ch_chunks[i]) <= ch_max
    /\ \A i \in 1..Len(ch_sent) : Len(ch_sent[i]) <= ch_max

\* a text with a line longer than max_length has been sent as several pieces,
\* one of them of exactly max_length characters
C14_Witness ==
    /\ ch_pc = "done"
    /\ Len(ch_sent) >= 3
    /\ \E i \in 1..Len(ch_sent) : Len(ch_sent[i]) = ch_max /\ ch_max = 2
    /\ \E l \in 1..Len(SplitLines(ch_text)) : Len(SplitLines(ch_text)[l]) > ch_max

RECURSIVE Concat(_)
\* the pieces one after the other
Concat(pieces) ==
    IF pieces = <<>> THEN <<>> ELSE Head(pieces) \o Concat(Tail(pieces))

IsNotBreak(ch) == ch # NL

\* the text without its line breaks
WithoutBreaks(s) == SelectSeq(s, IsNotBreak)

\* C15: chunking is lossless: the pieces, with the separators put back, are
\* the text. Stated by what it implies for any choice of separators: apart
\* from line breaks, the pieces in order hold exactly the characters of the
\* text.
C15_ChunkingLossless ==
    ch_pc = "done" => WithoutBreaks(Concat(ch_sent)) = WithoutBreaks(ch_text)

\* C16: a single line of length k * max_length, k >= 2, is sent as exactly k
\* pieces of max_length characters each, in order.
C16_LongLineSplitEvenly ==
    ch_pc = "done" /\ WithoutBreaks(ch_text) = ch_text
    /\ Len(ch_text) >= 2 * ch_max /\ Len(ch_text) % ch_max = 0
    => /\ Len(ch_sent) * ch_max = Len(ch_text)
       /\ \A i \in 1..Len(ch_sent) :
              ch_sent[i] = SubSeq(ch_text, (i - 1) * ch_max + 1, i * ch_max)

\* C17: for the empty text no piece is produced or sent.
C17_EmptyTextNoPiece ==
    ch_pc = "done" /\ ch_text = <<>> => ch_sent = <<>>

\* C18: pieces are built greedily: a line is appended to the current piece
\* whenever the piece with the line added has at most max_length characters,
\* and the current piece is flushed only when it would have more.
C18_GreedyPieces ==
    [][ch_pc = "for" /\ ch_lines # <<>> =>
          LET line == Head(ch_lines)
              fits == Len(ch_current) + Len(line) <= ch_max
          IN /\ fits => /\ ch_chunks' = ch_chunks
                        /\ ch_current' = ch_current \o line \o <<NL>>
             /\ ch_chunks' # ch_chunks => ~fits]_vars

\* call c went through CESClient.run_session and run_session has ended
SyncEnded(c) == sync_requests[c] > 0 /\ pc[c] \in {"returned", "raised", "replied"}

\* the non-empty texts of a response, in the order they are collected
TextsOf(response) ==
    SelectSeq(response.outputs, IsNonEmpty) \o SelectSeq(response.content, IsNonEmpty)

\* C19: the synchronous client makes exactly one backend request per send: a
\* failed request raises without a retry, and a successful response with no
\* non-empty text is returned as the serialized response, not raised.
C19_OneRequestNoRetry ==
    \A c \in Calls :
        /\ pc[c] \in {"returned", "raised", "replied"} /\ ~use_bidi_session
           => sync_requests[c] = 1
        /\ SyncEnded(c) /\ Raised(c) => exc[c] = "request" /\ result[c] = None
        /\ SyncEnded(c) /\ Returned(c) /\ TextsOf(sync_response[c]) = <<>>
           => result[c] = ReprOutputs(sync_response[c].outputs)

\* a response whose only output has an empty text was returned as its
\* serialization, after one request
C19_Witness ==
    \E c \in Calls :
        /\ SyncEnded(c) /\ Returned(c) /\ sync_requests[c] = 1
        /\ sync_response[c].outputs = <<<<>>>>
        /\ result[c] = EmptyOutputRepr

\* C20 as stated: on success the returned text is the newline-join of the
\* non-empty text fields of the outputs list, in list order, and the reply
\* is that text.
C20_TextIsJoinOfOutputs ==
    \A c \in Calls :
        SyncEnded(c) /\ Returned(c)
        /\ SelectSeq(sync_response[c].outputs, IsNonEmpty) # <<>>
        => /\ result[c] =
                  JoinWith(NL, SelectSeq(sync_response[c].outputs, IsNonEmpty))
           /\ pc[c] = "replied" => replies[c] = <<result[c]>>

\* C20 amended: on success with at least one non-empty text, the returned
\* text is the newline-join of the non-empty texts of the outputs list
\* followed by those of response.response.content, and the reply is that text.
C20_TextIsJoinOfAllTexts ==
    \A c \in Calls :
        SyncEnded(c) /\ Returned(c) /\ TextsOf(sync_response[c]) # <<>>
        => /\ result[c] = JoinWith(NL, TextsOf(sync_response[c]))
           /\ pc[c] = "replied" => replies[c] = <<result[c]>>

\* outputs "h", "", "i" were answered with the reply "h\ni"
C20_Witness ==
    \E c \in Calls :
        /\ pc[c] = "replied" /\ sync_requests[c] = 1
        /\ sync_response[c] =
               [outputs |-> <<<<104>>, <<>>, <<105>>>>, content |-> <<>>]
        /\ replies[c] = <<<<104, NL, 105>>>>

\* C21: the session configuration sent to the backend, in the streaming
\* configuration frame and in the synchronous request, names the session
\* resource and, when a deployment id is configured, the deployment resource;
\* with none configured only the session is named.
C21_ConfigNamesDeployment ==
    \A c \in Calls : \A i \in 1..Len(sent[c]) :
        sent[c][i].kind \in {"config", "run_session"} =>
            /\ sent[c][i].session = get_session_name(session_id[c])
            /\ sent[c][i].deployment = deployment_resource_name(ces_deployment_id)

\* the state of call c's streaming exchange, in the spec's terms
StreamState(c) ==
    IF wk[c] = "none" THEN "Idle"
    ELSE IF errBy[c] THEN "Errored"
    ELSE IF IsClosed(c) THEN "Closed"
    ELSE IF conn[c] = "connecting" THEN "Connecting"
    ELSE IF Len(sent[c]) < 2 THEN "Open"
    ELSE "AwaitingCompletion"

\* the moves of the state machine; one step of the worker may pass through
\* Open, and a close may come at any state before Closed
StreamMoves ==
    {<<"Idle", "Connecting">>,
     <<"Connecting", "Open">>, <<"Connecting", "AwaitingCompletion">>,
     <<"Open", "AwaitingCompletion">>,
     <<"Connecting", "Closed">>, <<"Open", "Closed">>,
     <<"AwaitingCompletion", "Closed">>,
     <<"Connecting", "Errored">>, <<"Open", "Errored">>,
     <<"AwaitingCompletion", "Errored">>}

\* C22: a streaming call moves only along Idle, Connecting, Open,
\* AwaitingCompletion, Closed, with Errored entered only from Connecting, Open
\* or AwaitingCompletion; no frame is sent before the connection is open, and
\* Closed and Errored are terminal.
C22_StateMachine ==
    /\ [](\A c \in Calls :
              use_bidi_session /\ sent[c] # <<>>
              => StreamState(c) \notin {"Idle", "Connecting"})
    /\ [][\A c \in Calls :
              StreamState(c)' # StreamState(c)
              => <<StreamState(c), StreamState(c)'>> \in StreamMoves]_vars

\* the two frames on_open sends for call c, in order
OpenFrames(c) ==
    <<ConfigFrame(get_session_name(session_id[c])), InputFrame(user_message(c))>>

\* the step is on_open of call c failing: the worker leaves "connecting" with
\* the connection reported open
OpenFails(c) ==
    /\ wk[c] = "connecting" /\ wk'[c] = "closing"
    /\ ~self_connected /\ self_connected'

\* C23: on the open notification the worker sends the configuration frame
\* and then exactly one input frame with the message text; if a frame cannot
\* be built or sent, the error slot is set, the connection is closed, no
\* further frame is sent, and the call ends with a transport error.
C23_OpenSendsConfigThenInput ==
    /\ [](\A c \in Calls :
              /\ use_bidi_session =>
                     \E n \in 0..2 : sent[c] = SubSeq(OpenFrames(c), 1, n)
              /\ wk[c] = "open" => sent[c] = OpenFrames(c)
              /\ Finished(c) /\ Len(sent[c]) = 1 /\ use_bidi_session
                 => Raised(c) /\ exc[c] = "websocket")
    /\ [][\A c \in Calls :
              /\ OpenFails(c) => self_error' # None /\ IsClosed(c)'
              /\ wk[c] \notin {"none", "connecting"} => sent'[c] = sent[c]]_vars

\* the step is on_error of call c's worker
ErrorNotified(c) ==
    /\ wk[c] \in {"connecting", "open"} /\ wk'[c] = "closing"
    /\ self_error' # self_error
    /\ ~OpenFails(c)

\* the step is on_close of call c's worker
CloseNotified(c) == wk[c] = "closing" /\ wk'[c] = "exiting"

\* C24: every streaming call eventually returns or raises: an error
\* notification sets the error slot and releases the waiting caller, a close
\* notification releases it, and otherwise it goes on at the first completion
\* frame or at the timeout.
C24_CallEventuallyEnds ==
    /\ \A c \in {1} : (pc[c] = "send_message") ~> Finished(c)
    /\ [][\A c \in Calls :
              /\ ErrorNotified(c) => self_error' # None /\ self_response_event'
              /\ CloseNotified(c) => self_response_event'
              /\ pc[c] = "wait" /\ pc'[c] # "wait"
                 => self_response_event \/ timedOut'[c]]_vars

\* a call was released by an error notification and ended without a timeout
C24_Witness ==
    \E c \in Calls :
        Finished(c) /\ errBy[c] /\ ~timedOut[c] /\ conn[c] = "lost"

\* the last frame handed to on_message on c's connection in this step
FrameArrives(c, kind) ==
    /\ Len(frames'[c]) = Len(frames[c]) + 1
    /\ frames'[c][Len(frames'[c])] = kind

\* C25: an inbound frame that fails to parse is discarded: it leaves the
\* fragment list, the error slot and the completion signal as they were, and
\* the frames after it are processed as usual, so that the fragment list
\* holds the fragments of the frames that parse.
C25_BadFrameDiscarded ==
    /\ [][\A c \in Calls :
              FrameArrives(c, "bad")
              => /\ self_responses' = self_responses
                 /\ self_error' = self_error
                 /\ self_response_event' = self_response_event
                 /\ wk'[c] = "open" /\ conn'[c] = "open"]_vars
    /\ [](\A c \in {1} :
              Streamed(c)
              => self_responses = FragmentsOf(c, 1, Len(frames[c])))

\* after a frame that does not parse, a text frame with the completion flag
\* was taken in: its fragment is the only one and the signal is set
C25_Witness ==
    /\ frames[1] = <<"bad", "text_tc">>
    /\ self_responses = <<FragText(1, 2)>>
    /\ self_response_event
    /\ self_error = None

\* what one step does to the fragment list and to the callback's log
C26_PerFrame ==
    [][/\ \A c \in Calls :
              IF Len(frames'[c]) = Len(frames[c]) + 1
              THEN LET k == Len(frames[c]) + 1
                       f == Frame(c, k, frames'[c][k])
                       text == extract_bidi_response_text(f)
                   IN IF f.ok /\ Truthy(text)
                      THEN /\ self_responses' = Append(self_responses, text)
                           /\ cbLog'[c] =
                                  IF on_response[c] = "none" THEN cbLog[c]
                                  ELSE Append(cbLog[c], text)
                      ELSE /\ self_responses' = self_responses
                           /\ cbLog'[c] = cbLog[c]
              ELSE cbLog'[c] = cbLog[c]
       /\ (\A c \in Calls : frames'[c] = frames[c])
          => \/ self_responses' = self_responses
             \/ \E c \in Calls : pc[c] = "send_message" /\ pc'[c] = "token"
      ]_vars

\* C26: fragments are appended in frame-arrival order, none reordered, merged
\* or dropped, and a supplied callback is invoked once per fragment in the
\* same order, by the worker, before the next frame is processed.
C26_FragmentsInArrivalOrder ==
    /\ [](\A c \in {1} :
              Streamed(c)
              => /\ self_responses = FragmentsOf(c, 1, Len(frames[c]))
                 /\ cbLog[c] = IF on_response[c] = "none" THEN <<>>
                               ELSE FragmentsOf(c, 1, Len(frames[c])))
    /\ C26_PerFrame

\* three fragments arrived and the callback, which raises, got each in order
C26_Witness ==
    /\ Len(self_responses) = 3
    /\ on_response[1] = "raises"
    /\ cbLog[1] = <<FragText(1, 1), FragText(1, 2), FragText(1, 3)>>
    /\ self_responses = cbLog[1]

\* C27: the bearer token of a streaming call is obtained exactly once, at the
\* start of the call and before the connection is created, and is not
\* obtained again during the call; if obtaining it fails, the call raises and
\* neither a connection nor a worker thread is created.
C27_TokenOnceBeforeConnect ==
    /\ [](\A c \in Calls :
              /\ token_requests[c] <= 1
              /\ Streamed(c) => token_requests[c] = 1
              /\ pc[c] \in {"wait", "cleanup", "join", "finish"}
                 => token_requests[c] = 1
              /\ exc[c] = "auth"
                 => /\ token_requests[c] = 1
                    /\ Raised(c)
                    /\ wk[c] = "none" /\ conn[c] = "none" /\ sent[c] = <<>>)
    /\ [][\A c \in Calls :
              token_requests'[c] # token_requests[c]
              => /\ pc[c] = "token" /\ wk[c] = "none" /\ conn[c] = "none"
                 /\ exc'[c] = "auth" => self_ws' = self_ws
                                        /\ self_ws_thread' = self_ws_thread]_vars

\* a call whose token could not be obtained was answered with the apology,
\* with no connection and no worker
C27_Witness ==
    \E c \in Calls :
        /\ pc[c] = "replied" /\ exc[c] = "auth" /\ token_requests[c] = 1
        /\ wk[c] = "none" /\ self_ws_thread = 0

\* C28: every successfully parsed frame that carries the completion
\* indicator, at the top level or in the server output, sets the completion
\* signal, also when the per-fragment callback raises on that frame's
\* fragment.
C28_CompletionFrameSetsSignal ==
    [][\A c \in Calls : \A kind \in FrameKinds :
           LET f == Frame(c, Len(frames[c]) + 1, kind) IN
           FrameArrives(c, kind) /\ f.ok /\ is_final_response(f)
               => self_response_event']_vars

\* C29: two different context keys are never mapped to the same session id:
\* no two Telegram chats and no two Slack channel/thread keys share one.
C29_SessionIsolation ==
    /\ \A c1, c2 \in TgChats :
           c1 # c2 /\ tg_user_sessions[c1] # None
               => tg_user_sessions[c1] # tg_user_sessions[c2]
    /\ \A k1, k2 \in DOMAIN slack_user_sessions :
           k1 # k2 => slack_user_sessions[k1] # slack_user_sessions[k2]

\* the remaining line gets shorter in every iteration of the while loop
WhileShortens ==
    [][ch_pc = "while" /\ ch_pc' = "while"
           => /\ Len(ch_line) > ch_max
              /\ Len(ch_line') < Len(ch_line)]_vars

\* C30: the chunker terminates for every text and every max_length >= 1:
\* each iteration of the hard-split loop strictly shortens the remaining line,
\* and every call of send_long_message reaches its end.
C30_ChunkerTerminates ==
    /\ WhileShortens
    /\ (ch_pc = "call" /\ ch_max >= 1) ~> (ch_pc = "done")

\* a line of three characters cut one character at a time, and the call
\* returned
C30_Witness ==
    /\ ch_pc = "done"
    /\ ch_max = 1
    /\ Len(ch_text) = 3
    /\ Len(ch_line) = 1
    /\ Len(ch_sent) = 3

\* C31: get_session_id(k) and reset_session(k) change at most the registry
\* entry of key k: the mapping of every other context key, of either bridge,
\* is the same after the call as before it.
C31_OtherKeysUnchanged ==
    [][LET k == last_call'.key
           tg == last_call'.platform = "telegram"
       IN /\ \A cid \in TgChats :
                 ~(tg /\ cid = k)
                     => tg_user_sessions'[cid] = tg_user_sessions[cid]
          /\ \A x \in DOMAIN slack_user_sessions \cup DOMAIN slack_user_sessions' :
                 ~(~tg /\ x = k)
                     => /\ x \in DOMAIN slack_user_sessions
                        /\ x \in DOMAIN slack_user_sessions'
                        /\ slack_user_sessions'[x] = slack_user_sessions[x]]_vars

\* chat 12 was just reset while chat -12 keeps the id it was given, and a
\* Slack key was resolved before
C31_Witness ==
    /\ last_call.op = "reset"
    /\ last_call.platform = "telegram"
    /\ last_call.key = 12
    /\ tg_user_sessions[12] = last_call.ret
    /\ tg_user_sessions[-12] = tg_sanitize_session_id(-12)
    /\ DOMAIN slack_user_sessions # {}

====
